---- MODULE Spec2Model ----
(***************************************************************************)
(* Model of calculations.py (police-stop rate analysis).                   *)
(*                                                                         *)
(* Tables (pandas DataFrames) are sequences of rows; a row is a record.    *)
(* A numeric cell that pandas may leave missing is [isna, v]; comparisons  *)
(* with a missing cell are FALSE, as for NaN.  A time-of-day cell is       *)
(* [fmt, h, m, s], fmt = "str" for an 'HH:MM:SS' string and "time" for a   *)
(* datetime.time value.  A missing label cell is the string "NaN".         *)
(***************************************************************************)
EXTENDS Integers, Sequences, FiniteSets, TLC

VARIABLES pc, stops_df, sunset_times, merged, vod_stops, start_time, end_time,
          vod_prop, rates, index_cols, majority_group, minority_groups, rates_df,
          sun, hit_rates

vars == <<pc, stops_df, sunset_times, merged, vod_stops, start_time, end_time,
          vod_prop, rates, index_cols, majority_group, minority_groups, rates_df,
          sun, hit_rates>>

cmpVars == <<rates, index_cols, majority_group, minority_groups, rates_df>>

\* The variables of the components a specification does not exercise.
CmpIdle ==
    /\ rates = {}
    /\ index_cols = <<>>
    /\ majority_group = "white"
    /\ minority_groups = <<>>
    /\ rates_df = [status |-> "none", rows |-> <<>>]

SunIdle == sun = <<>>

HitIdle == hit_rates = {}

\* Longest stops table drawn as an input of the twilight filter.
MaxStops == 2

\* Longest observations table drawn as an input of the rate estimator.
MaxVodStops == 2

\* Longest stops table drawn as an input of the solar time calculator.
MaxSolarStops == 2

\* Longest stops table drawn as an input of the hit-rate aggregator.
MaxHitStops == 3

SeqsUpTo(S, n) == UNION {[1..k -> S] : k \in 0..n}

----------------------------------------------------------------------------
(* Cells *)

Num(n) == [isna |-> FALSE, v |-> n]

NaN == [isna |-> TRUE, v |-> 0]

\* pandas/numpy comparisons: any comparison with NaN is False.
Gt(a, b) == ~a.isna /\ ~b.isna /\ a.v > b.v

Lt(a, b) == ~a.isna /\ ~b.isna /\ a.v < b.v

Ge(a, b) == ~a.isna /\ ~b.isna /\ a.v >= b.v

Le(a, b) == ~a.isna /\ ~b.isna /\ a.v <= b.v

Sub(a, b) == IF a.isna \/ b.isna THEN NaN ELSE Num(a.v - b.v)

TimeOf(hh, mm, ss) == [fmt |-> "time", h |-> hh, m |-> mm, s |-> ss]

\* The missing value in a column of time-of-day values.
NaT == [fmt |-> "NaN", h |-> 0, m |-> 0, s |-> 0]

\* datetime.datetime.strptime(time, '%H:%M:%S').time(): a str that parses gives
\* a time value; anything else raises (TypeError for a non-str, ValueError for
\* fields out of range).
Strptime(cell) ==
    IF cell.fmt = "str" /\ cell.h \in 0..23 /\ cell.m \in 0..59 /\ cell.s \in 0..59
    THEN [ok |-> TRUE, val |-> TimeOf(cell.h, cell.m, cell.s)]
    ELSE [ok |-> FALSE, val |-> cell]

\* time.hour * 60 + time.minute
MinuteOf(t) == t.h * 60 + t.m

\* Time-of-day value of a minute of the day (seconds 0).
TimeAtMinute(n) == TimeOf(n \div 60, n % 60, 0)

----------------------------------------------------------------------------
(* get_veil_of_darkness_observations *)

\* One row of sunset_times as calc_sunset_times lays it out.
SunsetRow(d, sm, dm) ==
    [date |-> d, sunset |-> TimeAtMinute(sm), dusk |-> TimeAtMinute(dm),
     sunset_minute |-> sm, dusk_minute |-> dm]

\* The rows a left merge on the date yields for one stop: one per matching
\* sunset_times row, or one with the right-hand columns missing.
JoinedRow(stop, srow) ==
    [raw_row_number |-> stop.raw_row_number, date |-> stop.date,
     time |-> stop.time, subject_race |-> stop.subject_race,
     sunset |-> srow.sunset, dusk |-> srow.dusk,
     sunset_minute |-> Num(srow.sunset_minute),
     dusk_minute |-> Num(srow.dusk_minute)]

UnmatchedRow(stop) ==
    [raw_row_number |-> stop.raw_row_number, date |-> stop.date,
     time |-> stop.time, subject_race |-> stop.subject_race,
     sunset |-> NaT, dusk |-> NaT,
     sunset_minute |-> NaN, dusk_minute |-> NaN]

RECURSIVE MatchRows(_, _)
MatchRows(stop, st) ==
    IF st = <<>> THEN <<>>
    ELSE (IF Head(st).date = stop.date THEN <<JoinedRow(stop, Head(st))>> ELSE <<>>)
         \o MatchRows(stop, Tail(st))

RECURSIVE LeftMerge(_, _)
LeftMerge(stops, st) ==
    IF stops = <<>> THEN <<>>
    ELSE (IF MatchRows(Head(stops), st) = <<>>
          THEN <<UnmatchedRow(Head(stops))>>
          ELSE MatchRows(Head(stops), st))
         \o LeftMerge(Tail(stops), st)

\* try: times = column.apply(strptime) / except: times = column
NormalizedTimes(m) ==
    IF \A i \in 1..Len(m) : Strptime(m[i].time).ok
    THEN [i \in 1..Len(m) |-> Strptime(m[i].time).val]
    ELSE [i \in 1..Len(m) |-> m[i].time]

\* is_dark set from the dusk minute on (>= in place of >).
WithMinuteColumnsDarkAtDusk(m, times) ==
    [i \in 1..Len(m) |->
        [raw_row_number |-> m[i].raw_row_number, date |-> m[i].date,
         time |-> m[i].time, subject_race |-> m[i].subject_race,
         sunset |-> m[i].sunset, dusk |-> m[i].dusk,
         sunset_minute |-> m[i].sunset_minute, dusk_minute |-> m[i].dusk_minute,
         minute |-> MinuteOf(times[i]),
         minutes_after_dark |-> Sub(Num(MinuteOf(times[i])), m[i].dusk_minute),
         is_dark |-> IF Ge(Num(MinuteOf(times[i])), m[i].dusk_minute) THEN 1 ELSE 0]]

\* The columns minute, minutes_after_dark and is_dark added to the merge.
WithMinuteColumns(m, times) ==
    [i \in 1..Len(m) |->
        [raw_row_number |-> m[i].raw_row_number, date |-> m[i].date,
         time |-> m[i].time, subject_race |-> m[i].subject_race,
         sunset |-> m[i].sunset, dusk |-> m[i].dusk,
         sunset_minute |-> m[i].sunset_minute, dusk_minute |-> m[i].dusk_minute,
         minute |-> MinuteOf(times[i]),
         minutes_after_dark |-> Sub(Num(MinuteOf(times[i])), m[i].dusk_minute),
         is_dark |-> IF Gt(Num(MinuteOf(times[i])), m[i].dusk_minute) THEN 1 ELSE 0]]

DuskValues(m) == {m[i].dusk_minute.v : i \in {j \in 1..Len(m) : ~m[j].dusk_minute.isna}}

\* Series.min() / Series.max(): missing cells are skipped, NaN when none is left.
min_dusk_minute(m) ==
    IF DuskValues(m) = {} THEN NaN
    ELSE Num(CHOOSE x \in DuskValues(m) : \A y \in DuskValues(m) : x <= y)

max_dusk_minute(m) ==
    IF DuskValues(m) = {} THEN NaN
    ELSE Num(CHOOSE x \in DuskValues(m) : \A y \in DuskValues(m) : x >= y)

\* A window test that forgets the upper end.
InWindowNoUpper(r, lo, hi) == Ge(Num(r.minute), lo)

InWindow(r, lo, hi) == Ge(Num(r.minute), lo) /\ Le(Num(r.minute), hi)

IntertwilightFilter(m, lo, hi) == SelectSeq(m, LAMBDA r : InWindow(r, lo, hi))

InAmbiguous(r) ==
    Gt(Num(r.minute), r.sunset_minute) /\ Lt(Num(r.minute), r.dusk_minute)

AmbiguousFilter(m) == SelectSeq(m, LAMBDA r : ~InAmbiguous(r))

\* The window bounds taken after the sunset-to-dusk exclusion instead of before
\* any filtering.
get_veil_bounds_after_exclusion(stops, st) ==
    LET m0    == LeftMerge(stops, st)
        times == NormalizedTimes(m0)
    IN  IF \E i \in 1..Len(m0) : times[i].fmt = "str"
        THEN [status |-> "AttributeError", rows |-> <<>>]
        ELSE LET m1 == AmbiguousFilter(WithMinuteColumns(m0, times))
             IN  [status |-> "ok",
                  rows |-> IntertwilightFilter(m1, min_dusk_minute(m1),
                                               max_dusk_minute(m1))]

\* The whole function: the table returned, or the exception raised.
get_veil_of_darkness_observations(stops, st) ==
    LET m0    == LeftMerge(stops, st)
        times == NormalizedTimes(m0)
    IN  IF \E i \in 1..Len(m0) : times[i].fmt = "str"
        THEN [status |-> "AttributeError", rows |-> <<>>]
        ELSE LET m1 == WithMinuteColumns(m0, times)
                 lo == min_dusk_minute(m1)
                 hi == max_dusk_minute(m1)
             IN  [status |-> "ok",
                  rows |-> AmbiguousFilter(IntertwilightFilter(m1, lo, hi))]

----------------------------------------------------------------------------
(* calc_vod_rate *)

\* datetime.datetime.strptime(text, '%H:%M').time() of an "hh:mm" text <<h, m>>.
StrptimeHM(t) == TimeOf(t[1], t[2], 0)

\* datetime.time ordering: by hour, minute, second.
TimeLe(a, b) ==
    \/ a.h < b.h
    \/ a.h = b.h /\ a.m < b.m
    \/ a.h = b.h /\ a.m = b.m /\ a.s <= b.s

\* (time >= start_time_dt) & (time <= end_time_dt)
InTimeWindow(r, s, e) == TimeLe(s, r.time) /\ TimeLe(r.time, e)

\* groupby('is_dark')[first column].agg('count'): the non-missing cells of the
\* first column among the rows of the partition.
total_count(rows, d) ==
    Len(SelectSeq(rows, LAMBDA r : r.is_dark = d /\ ~r.raw_row_number.isna))

\* groupby(['is_dark', group_col])[first column].agg('count')
race_count(rows, d, g) ==
    Len(SelectSeq(rows, LAMBDA r : r.is_dark = d /\ r.subject_race = g
                                   /\ ~r.raw_row_number.isna))

\* The groups groupby forms: rows with a missing key are left out.
GroupKeys(rows) ==
    {<<rows[i].is_dark, rows[i].subject_race>> :
        i \in {j \in 1..Len(rows) : rows[j].subject_race # "NaN"}}

NaNProp == [isna |-> TRUE, num |-> 0, den |-> 1]

\* race_count / total_count, as the fraction num/den; 0/0 is NaN.
Prop(rows, d, g) ==
    IF total_count(rows, d) = 0 THEN NaNProp
    ELSE [isna |-> FALSE, num |-> race_count(rows, d, g), den |-> total_count(rows, d)]

\* pivot_table(values='prop', index='is_dark', columns=group_col): groups whose
\* prop is NaN are dropped, a cell with no group is NaN.
PivotProp(rows) ==
    LET keys == {k \in GroupKeys(rows) : ~Prop(rows, k[1], k[2]).isna}
        idx  == {k[1] : k \in keys}
        cols == {k[2] : k \in keys}
    IN  [status |-> "ok", index |-> idx, columns |-> cols,
         cell |-> [k \in idx \X cols |->
                     IF k \in keys THEN Prop(rows, k[1], k[2]) ELSE NaNProp]]

\* The whole function: the table returned, or the exception raised by comparing
\* a str cell with a datetime.time.
calc_vod_rate(stops, start, end) ==
    IF \E i \in 1..Len(stops) : stops[i].time.fmt = "str"
    THEN [status |-> "TypeError", index |-> {}, columns |-> {}, cell |-> <<>>]
    ELSE PivotProp(SelectSeq(stops,
            LAMBDA r : InTimeWindow(r, StrptimeHM(start), StrptimeHM(end))))

----------------------------------------------------------------------------
(* Inputs of the twilight filter *)

Dates == {"2020-01-01", "2020-01-02", "2020-01-03"}

Clock == {<<17, 50, 0>>, <<17, 55, 30>>, <<18, 0, 0>>, <<18, 2, 0>>, <<18, 10, 59>>}

StopRow(d, fmt, c) ==
    [raw_row_number |-> Num(1), date |-> d, subject_race |-> "white",
     time |-> [fmt |-> fmt, h |-> c[1], m |-> c[2], s |-> c[3]]]

TwilightStops(fmt) == {StopRow(d, fmt, c) : d \in Dates, c \in Clock}

\* Per date: no row, or a (sunset_minute, dusk_minute) pair; the pair of the last
\* date has its sunset after the dusk of the first pair.
SolarChoices ==
    {ch \in [Dates -> {<<>>, <<1070, 1080>>, <<1075, 1090>>, <<1085, 1100>>}] :
        /\ ch["2020-01-01"] # <<1085, 1100>>
        /\ ch["2020-01-02"] # <<1085, 1100>>
        /\ ch["2020-01-03"] \in {<<>>, <<1085, 1100>>}}

SolarTable(ch) ==
    LET row(d) == IF ch[d] = <<>> THEN <<>> ELSE <<SunsetRow(d, ch[d][1], ch[d][2])>>
    IN  row("2020-01-01") \o row("2020-01-02") \o row("2020-01-03")

NoTable == [status |-> "none", rows |-> <<>>]

NoProp == [status |-> "none", index |-> {}, columns |-> {}, cell |-> <<>>]

VodIdle ==
    /\ vod_stops = <<>>
    /\ start_time = <<0, 0>>
    /\ end_time = <<0, 0>>
    /\ vod_prop = NoProp

InitTwilight ==
    /\ pc = "twilight"
    /\ \E fmt \in {"str", "time"} : stops_df \in SeqsUpTo(TwilightStops(fmt), MaxStops)
    /\ \E ch \in SolarChoices : sunset_times = SolarTable(ch)
    /\ merged = NoTable
    /\ VodIdle
    /\ CmpIdle /\ SunIdle /\ HitIdle

GetVeil ==
    /\ pc = "twilight"
    /\ merged' = get_veil_of_darkness_observations(stops_df, sunset_times)
    /\ pc' = "filtered"
    /\ UNCHANGED <<stops_df, sunset_times, vod_stops, start_time, end_time, vod_prop,
                   cmpVars, sun, hit_rates>>

NextTwilight == GetVeil

SpecTwilight == InitTwilight /\ [][NextTwilight]_vars

----------------------------------------------------------------------------
(* Claims about the twilight filter *)

Filtered == pc = "filtered" /\ merged.status = "ok"

\* Every stop's date has a row in sunset_times.
AllDatesHaveRow ==
    \A i \in 1..Len(stops_df) :
        \E j \in 1..Len(sunset_times) : sunset_times[j].date = stops_df[i].date

\* dusk_minute of the sunset_times rows that join some stop (before filtering).
JoinedDusk ==
    {sunset_times[j].dusk_minute : j \in {k \in 1..Len(sunset_times) :
        \E i \in 1..Len(stops_df) : stops_df[i].date = sunset_times[k].date}}

\* C1: when every stop's date has a solar row, every output row has its minute
\* between the least and the greatest dusk_minute of the joined input, and is
\* not strictly between its own date's sunset_minute and dusk_minute.
C1_TwilightFilter ==
    (Filtered /\ AllDatesHaveRow) =>
        \A i \in 1..Len(merged.rows) :
            LET r == merged.rows[i] IN
            /\ \E d \in JoinedDusk : d <= r.minute
            /\ \E d \in JoinedDusk : r.minute <= d
            /\ \E j \in 1..Len(sunset_times) :
                  /\ sunset_times[j].date = r.date
                  /\ r.sunset_minute = Num(sunset_times[j].sunset_minute)
                  /\ r.dusk_minute = Num(sunset_times[j].dusk_minute)
                  /\ ~(sunset_times[j].sunset_minute < r.minute
                        /\ r.minute < sunset_times[j].dusk_minute)

\* C1 witness: a run on fully matched stops in which the window is wider than
\* one minute, a row was removed and a row was kept.
C1_Witness ==
    /\ Filtered /\ AllDatesHaveRow
    /\ Cardinality(JoinedDusk) > 1
    /\ Len(merged.rows) > 0
    /\ Len(merged.rows) < Len(stops_df)

\* The result with the two filters applied in the other order (bounds as the
\* code computes them, before filtering).
SwappedFilters(stops, st) ==
    LET m0 == LeftMerge(stops, st)
        m1 == WithMinuteColumns(m0, NormalizedTimes(m0))
    IN  IntertwilightFilter(AmbiguousFilter(m1), min_dusk_minute(m1),
                            max_dusk_minute(m1))

\* C4 (as amended): the window filter and the sunset-to-dusk exclusion commute;
\* the rows returned are those the two filters give in the other order.
C4_FiltersCommute ==
    Filtered => merged.rows = SwappedFilters(stops_df, sunset_times)

\* C4 witness: a run in which each of the two filters removed a row.
C4_Witness ==
    /\ Filtered
    /\ LET m0 == LeftMerge(stops_df, sunset_times)
           m1 == WithMinuteColumns(m0, NormalizedTimes(m0))
           w  == IntertwilightFilter(m1, min_dusk_minute(m1), max_dusk_minute(m1))
       IN  /\ Len(w) < Len(m1)
           /\ Len(AmbiguousFilter(m1)) < Len(m1)
           /\ Len(merged.rows) < Len(w)

\* C4 as stated: for some input the two orders retain different rows.
C4_OrderMatters ==
    pc = "filtered" =>
    \E fmt \in {"str", "time"} :
        \E stops \in SeqsUpTo(TwilightStops(fmt), MaxStops) :
            \E ch \in SolarChoices :
                get_veil_of_darkness_observations(stops, SolarTable(ch)).rows
                    # SwappedFilters(stops, SolarTable(ch))

\* C6 as stated: a stop whose date has no sunset_times row never appears in the
\* output.
C6_UnmatchedDropped ==
    pc = "filtered" =>
        /\ merged.status = "ok"
        /\ \A i \in 1..Len(merged.rows) :
              \E j \in 1..Len(sunset_times) :
                  sunset_times[j].date = merged.rows[i].date

\* Every row of sunset_times has its dusk at or after its sunset.
DuskNotBeforeSunset ==
    \A j \in 1..Len(sunset_times) :
        sunset_times[j].dusk_minute >= sunset_times[j].sunset_minute

\* The sunset_times row of a date (one per date).
OwnSolarRow(d) ==
    sunset_times[CHOOSE j \in 1..Len(sunset_times) : sunset_times[j].date = d]

\* C11: with every stop date in sunset_times and dusk_minute >= sunset_minute
\* throughout, an output row labelled is_dark = 0 has its minute at or before its
\* own date's sunset_minute or exactly at its own date's dusk_minute; a row
\* labelled is_dark = 1 has its minute after its own date's dusk_minute, and that
\* dusk_minute is below the greatest dusk_minute of the joined input; when the
\* joined dates share one dusk_minute, every output row is at that minute and
\* labelled is_dark = 0.
C11_DarkLabelling ==
    (Filtered /\ AllDatesHaveRow /\ DuskNotBeforeSunset) =>
        /\ \A i \in 1..Len(merged.rows) :
              LET r   == merged.rows[i]
                  own == OwnSolarRow(r.date)
              IN  /\ r.is_dark \in {0, 1}
                  /\ r.is_dark = 0 =>
                        r.minute <= own.sunset_minute \/ r.minute = own.dusk_minute
                  /\ r.is_dark = 1 =>
                        /\ r.minute > own.dusk_minute
                        /\ \E d \in JoinedDusk : own.dusk_minute < d
        /\ Cardinality(JoinedDusk) = 1 =>
              \A i \in 1..Len(merged.rows) :
                  merged.rows[i].minute \in JoinedDusk /\ merged.rows[i].is_dark = 0

\* C11 witness: an output holding a row labelled is_dark = 1 and a row labelled
\* is_dark = 0 whose minute is at or before its own date's sunset_minute.
C11_Witness ==
    /\ Filtered /\ AllDatesHaveRow /\ DuskNotBeforeSunset
    /\ \E i \in 1..Len(merged.rows) : merged.rows[i].is_dark = 1
    /\ \E i \in 1..Len(merged.rows) :
          /\ merged.rows[i].is_dark = 0
          /\ merged.rows[i].minute <= OwnSolarRow(merged.rows[i].date).sunset_minute

\* C11 witness of the shared-dusk case: two dates with one dusk_minute, a stop
\* removed and a stop kept at exactly that minute.
C11_WitnessSharedDusk ==
    /\ Filtered /\ AllDatesHaveRow /\ DuskNotBeforeSunset
    /\ Cardinality(JoinedDusk) = 1
    /\ Cardinality({stops_df[i].date : i \in 1..Len(stops_df)}) = 2
    /\ Len(merged.rows) = 1

----------------------------------------------------------------------------
(* The rate estimator on observation tables *)

CalcVodRate ==
    /\ pc = "vod"
    /\ vod_prop' = calc_vod_rate(vod_stops, start_time, end_time)
    /\ pc' = "estimated"
    /\ UNCHANGED <<stops_df, sunset_times, merged, vod_stops, start_time, end_time,
                   cmpVars, sun, hit_rates>>

VodClock == {<<18, 0, 0>>, <<18, 15, 30>>, <<18, 30, 0>>}

VodRows ==
    {[raw_row_number |-> n, time |-> TimeOf(c[1], c[2], c[3]), subject_race |-> g,
      is_dark |-> d] :
        n \in {Num(1), NaN}, c \in VodClock, g \in {"white", "black", "NaN"},
        d \in {0, 1}}

InitVod ==
    /\ pc = "vod"
    /\ stops_df = <<>>
    /\ sunset_times = <<>>
    /\ merged = NoTable
    /\ vod_stops \in SeqsUpTo(VodRows, MaxVodStops)
    /\ start_time \in {<<18, 0>>, <<18, 15>>}
    /\ end_time \in {<<18, 15>>, <<18, 30>>}
    /\ vod_prop = NoProp
    /\ CmpIdle /\ SunIdle /\ HitIdle

NextVod == CalcVodRate

SpecVod == InitVod /\ [][NextVod]_vars

\* The observations inside the window, by the time values themselves.
WindowRows ==
    SelectSeq(vod_stops, LAMBDA r :
        /\ TimeLe(TimeOf(start_time[1], start_time[2], 0), r.time)
        /\ TimeLe(r.time, TimeOf(end_time[1], end_time[2], 0)))

PartitionRows(d) == SelectSeq(WindowRows, LAMBDA r : r.is_dark = d)

RECURSIVE SumNum(_, _, _)
SumNum(cell, d, cols) ==
    IF cols = {} THEN 0
    ELSE LET g == CHOOSE x \in cols : TRUE
         IN  (IF cell[<<d, g>>].isna THEN 0 ELSE cell[<<d, g>>].num)
             + SumNum(cell, d, cols \ {g})

\* C2 as stated: in each is_dark partition with a record in the window, the
\* proportions reported for the partition are fractions of one total and their
\* counts add up to that total, so that they sum to 1.
C2_ProportionsSumToOne ==
    (pc = "estimated" /\ vod_prop.status = "ok") =>
        \A d \in vod_prop.index :
            Len(PartitionRows(d)) > 0 =>
                \E total \in 1..Len(vod_stops) :
                    /\ \A g \in vod_prop.columns :
                          ~vod_prop.cell[<<d, g>>].isna =>
                              vod_prop.cell[<<d, g>>].den = total
                    /\ SumNum(vod_prop.cell, d, vod_prop.columns) = total

\* C8 as stated: the table has a row for an is_dark value exactly when some
\* observation with that value lies in [start_time, end_time].
C8_RowIffPartitionInWindow ==
    (pc = "estimated" /\ vod_prop.status = "ok") =>
        \A d \in {0, 1} : d \in vod_prop.index <=> Len(PartitionRows(d)) > 0

----------------------------------------------------------------------------
(* The documented data flow: twilight filter, then rate estimator *)

\* vod_stops is "a DataFrame that came from get_veil_of_darkness_observations".
FeedEstimator ==
    /\ pc = "filtered"
    /\ merged.status = "ok"
    /\ vod_stops' = merged.rows
    /\ pc' = "vod"
    /\ UNCHANGED <<stops_df, sunset_times, merged, start_time, end_time, vod_prop,
                   cmpVars, sun, hit_rates>>

PipelineStops(fmt) ==
    {[raw_row_number |-> Num(1), date |-> d, subject_race |-> g,
      time |-> [fmt |-> fmt, h |-> c[1], m |-> c[2], s |-> c[3]]] :
        d \in {"2020-01-01", "2020-01-02"}, g \in {"white", "black"},
        c \in {<<18, 0, 0>>, <<18, 2, 0>>, <<18, 10, 59>>}}

InitPipeline ==
    /\ pc = "twilight"
    /\ \E fmt \in {"str", "time"} : stops_df \in SeqsUpTo(PipelineStops(fmt), MaxStops)
    /\ sunset_times = <<SunsetRow("2020-01-01", 1070, 1080),
                        SunsetRow("2020-01-02", 1075, 1090)>>
    /\ merged = NoTable
    /\ vod_stops = <<>>
    /\ start_time = <<18, 0>>
    /\ end_time \in {<<18, 5>>, <<18, 30>>}
    /\ vod_prop = NoProp
    /\ CmpIdle /\ SunIdle /\ HitIdle

NextPipeline == GetVeil \/ FeedEstimator \/ CalcVodRate

SpecPipeline == InitPipeline /\ [][NextPipeline]_vars

\* C7 as stated: every row the filter returns carries a time-of-day value in its
\* time column, and the estimator fed with those rows returns a table.
C7_TimeNormalized ==
    /\ (pc \in {"filtered", "vod", "estimated"} /\ merged.status = "ok") =>
          \A i \in 1..Len(merged.rows) : merged.rows[i].time.fmt = "time"
    /\ pc = "estimated" => vod_prop.status = "ok"

----------------------------------------------------------------------------
(* compare_rates *)
(* A rate table is held as a set of rows [district, subject_race, hit_rate]  *)
(* with one row per key, as the calc_*_rates functions produce it; rates are *)
(* written in percent.  index_cols is <<"district">> or <<>>; without an     *)
(* index column the district field is 0 and is not a column of the table.    *)

RECURSIVE SortedSeq(_)
SortedSeq(S) ==
    IF S = {} THEN <<>>
    ELSE LET lo == CHOOSE x \in S : \A y \in S : x <= y
         IN  <<lo>> \o SortedSeq(S \ {lo})

\* The columns of the pivot: the group values that occur in the table.
PivotColumns(rt) == {r.subject_race : r \in rt}

\* The rows of the pivot kept only where the majority group has a rate.
PivotIndexMajorityOnly(rt, maj) == {r.district : r \in {x \in rt : x.subject_race = maj}}

\* The rows of the pivot: the index combinations that occur in the table.
PivotIndex(rt, maj) == {r.district : r \in rt}

\* A cell of the pivot: the rate of the (index, group) row, fill_value=0 when
\* the table has no such row.
PivotCell(rt, i, g) ==
    IF \E r \in rt : r.district = i /\ r.subject_race = g
    THEN (CHOOSE r \in rt : r.district = i /\ r.subject_race = g).hit_rate
    ELSE 0

\* One melted row per (value_var, pivot row), in the order sort_values leaves:
\* ascending index, value_vars in the order given within one index.
RECURSIVE MeltRows(_, _, _, _)
MeltRows(rt, maj, idx, value_vars) ==
    IF idx = <<>> THEN <<>>
    ELSE [k \in 1..Len(value_vars) |->
            [district |-> Head(idx),
             majority_rate |-> PivotCell(rt, Head(idx), maj),
             minority_group |-> value_vars[k],
             minority_rate |-> PivotCell(rt, Head(idx), value_vars[k])]]
         \o MeltRows(rt, maj, Tail(idx), value_vars)

\* melt that fills a value_var absent from the pivot instead of raising.
MeltFillMissing(rt, maj, value_vars) ==
    [status |-> "ok",
     rows |-> MeltRows(rt, maj, SortedSeq(PivotIndex(rt, maj)), value_vars)]

\* melt(id_vars=index_cols + [majority column], value_vars=minority_groups):
\* KeyError when an id_var or a value_var is no column of the pivot (the
\* majority column exists under its new name only if the majority occurs; a
\* value_var equal to the majority no longer exists under its old name).
Melt(rt, maj, value_vars) ==
    IF \/ maj \notin PivotColumns(rt)
       \/ \E k \in 1..Len(value_vars) : value_vars[k] \notin PivotColumns(rt) \ {maj}
    THEN [status |-> "KeyError", rows |-> <<>>]
    ELSE [status |-> "ok",
          rows |-> MeltRows(rt, maj, SortedSeq(PivotIndex(rt, maj)), value_vars)]

compare_rates(rt, maj, mins) == Melt(rt, maj, mins)

Groups == {"white", "black", "hispanic"}

Districts(ic) == IF ic = <<>> THEN {0} ELSE {1, 2}

Percent == {0, 50}

\* The rate tables: any non-empty set of keys, any rate for each.
RateTables(ic) ==
    UNION {{{[district |-> k[1], subject_race |-> k[2], hit_rate |-> f[k]] : k \in keys} :
               f \in [keys -> Percent]} :
           keys \in (SUBSET (Districts(ic) \X Groups)) \ {{}}}

\* Non-empty lists of distinct minority values.
MinorityLists(maj) ==
    {m \in SeqsUpTo(Groups \ {maj}, 2) :
        Len(m) > 0 /\ \A i, j \in 1..Len(m) : i # j => m[i] # m[j]}

InitCompare ==
    /\ pc = "compare"
    /\ stops_df = <<>> /\ sunset_times = <<>> /\ merged = NoTable
    /\ VodIdle /\ SunIdle /\ HitIdle
    /\ index_cols \in {<<>>, <<"district">>}
    /\ rates \in RateTables(index_cols)
    /\ majority_group \in Groups
    /\ minority_groups \in MinorityLists(majority_group)
    /\ rates_df = [status |-> "none", rows |-> <<>>]

CompareRates ==
    /\ pc = "compare"
    /\ rates_df' = compare_rates(rates, majority_group, minority_groups)
    /\ pc' = "compared"
    /\ UNCHANGED <<stops_df, sunset_times, merged, vod_stops, start_time, end_time,
                   vod_prop, rates, index_cols, majority_group, minority_groups,
                   sun, hit_rates>>

NextCompare == CompareRates

SpecCompare == InitCompare /\ [][NextCompare]_vars

PresentGroups == {r.subject_race : r \in rates}

AbsentMinority ==
    \E k \in 1..Len(minority_groups) : minority_groups[k] \notin PresentGroups

\* C3 (as amended): when a value of minority_groups never occurs in the group
\* column, the call raises KeyError and returns no table: no row is zero-filled
\* for the absent value.
C3_AbsentMinorityRaises ==
    (pc = "compared" /\ AbsentMinority) =>
        rates_df.status = "KeyError" /\ rates_df.rows = <<>>

\* C3 witness: a call with the majority and one minority value present and
\* another minority value absent.
C3_Witness ==
    /\ pc = "compared" /\ AbsentMinority
    /\ majority_group \in PresentGroups
    /\ \E k \in 1..Len(minority_groups) : minority_groups[k] \in PresentGroups

\* C3 as stated: with a minority value absent from the group column the call
\* returns a table holding a row for that value with minority rate 0.
C3_AbsentMinorityZeroFilled ==
    (pc = "compared" /\ AbsentMinority) =>
        /\ rates_df.status = "ok"
        /\ \A k \in 1..Len(minority_groups) :
              minority_groups[k] \notin PresentGroups =>
                  \E i \in 1..Len(rates_df.rows) :
                      /\ rates_df.rows[i].minority_group = minority_groups[k]
                      /\ rates_df.rows[i].minority_rate = 0

InputRate(i, g) ==
    IF \E r \in rates : r.district = i /\ r.subject_race = g
    THEN (CHOOSE r \in rates : r.district = i /\ r.subject_race = g).hit_rate
    ELSE 0

\* C9: with index columns, and the majority and every minority value occurring,
\* the output has exactly one row per (index combination of the input, minority
\* value), no row of another index combination, and each row carries the
\* majority and minority rates of its own index combination, 0 where the input
\* has no row for the pair.
C9_SameIndexUniverse ==
    (/\ pc = "compared" /\ index_cols # <<>>
     /\ majority_group \in PresentGroups /\ ~AbsentMinority) =>
        /\ rates_df.status = "ok"
        /\ \A i \in 1..Len(rates_df.rows) :
              /\ \E r \in rates : r.district = rates_df.rows[i].district
              /\ \E k \in 1..Len(minority_groups) :
                    minority_groups[k] = rates_df.rows[i].minority_group
              /\ rates_df.rows[i].majority_rate
                    = InputRate(rates_df.rows[i].district, majority_group)
              /\ rates_df.rows[i].minority_rate
                    = InputRate(rates_df.rows[i].district, rates_df.rows[i].minority_group)
        /\ \A r \in rates : \A k \in 1..Len(minority_groups) :
              Cardinality({i \in 1..Len(rates_df.rows) :
                  /\ rates_df.rows[i].district = r.district
                  /\ rates_df.rows[i].minority_group = minority_groups[k]}) = 1

\* C9 witness: two index combinations, one of them without a majority row and
\* one without a row for some minority value.
C9_Witness ==
    /\ pc = "compared" /\ index_cols # <<>>
    /\ majority_group \in PresentGroups /\ ~AbsentMinority
    /\ Cardinality({r.district : r \in rates}) = 2
    /\ \E r \in rates :
          ~\E x \in rates : x.district = r.district /\ x.subject_race = majority_group
    /\ \E i \in 1..Len(rates_df.rows) :
          /\ rates_df.rows[i].minority_rate = 0
          /\ ~\E x \in rates : /\ x.district = rates_df.rows[i].district
                               /\ x.subject_race = rates_df.rows[i].minority_group

----------------------------------------------------------------------------
(* calc_sunset_times *)
(* The astronomical collaborator (astral's Location.sun, local=True) is a    *)
(* black box: sun[date] is the pair of local timestamps it answers, each     *)
(* [day, h, m, s] with day the number of days after the date asked for.      *)

\* datetime.time(): the time of day of a timestamp, its date dropped.
TimeOfStamp(ts) == TimeOf(ts.h, ts.m, ts.s)

RECURSIVE Unique(_)
\* Series.unique(): the distinct values in order of first appearance.
Unique(seq) ==
    IF seq = <<>> THEN <<>>
    ELSE LET rest == Unique(SubSeq(seq, 1, Len(seq) - 1))
             last == seq[Len(seq)]
         IN  IF \E i \in 1..Len(rest) : rest[i] = last THEN rest
             ELSE Append(rest, last)

\* The whole function: the table returned, or the exception raised.  With no
\* stop the five lists are empty, the frame built from their zip has no column,
\* and naming its five columns raises ValueError (length mismatch).
calc_sunset_times(stops, answers) ==
    LET unique_dates == Unique([i \in 1..Len(stops) |-> stops[i].date])
    IN  IF unique_dates = <<>>
        THEN [status |-> "ValueError", rows |-> <<>>]
        ELSE [status |-> "ok",
              rows |->
                [i \in 1..Len(unique_dates) |->
                    LET sunset == TimeOfStamp(answers[unique_dates[i]].sunset)
                        dusk   == TimeOfStamp(answers[unique_dates[i]].dusk)
                    IN  [date |-> unique_dates[i], sunset |-> sunset, dusk |-> dusk,
                         sunset_minute |-> MinuteOf(sunset),
                         dusk_minute |-> MinuteOf(dusk)]]]

SolarDates == {"2020-01-01", "2020-06-21"}

Stamps ==
    {[day |-> d, h |-> c[1], m |-> c[2], s |-> c[3]] :
        d \in {0, 1},
        c \in {<<0, 10, 0>>, <<17, 50, 0>>, <<18, 15, 59>>, <<23, 40, 30>>}}

StampLe(a, b) ==
    \/ a.day < b.day
    \/ a.day = b.day /\ TimeLe(TimeOfStamp(a), TimeOfStamp(b))

\* The answers of the collaborator: dusk at or after sunset.
SunAnswers == {[sunset |-> a, dusk |-> b] : a, b \in Stamps}

InitSolar ==
    /\ pc = "solar"
    /\ stops_df \in SeqsUpTo({StopRow(d, "time", <<18, 0, 0>>) : d \in SolarDates},
                             MaxSolarStops)
    /\ sun \in [SolarDates -> {a \in SunAnswers : StampLe(a.sunset, a.dusk)}]
    /\ sunset_times = <<>>
    /\ merged = NoTable
    /\ VodIdle /\ CmpIdle /\ HitIdle

CalcSunsetTimes ==
    /\ pc = "solar"
    /\ LET res == calc_sunset_times(stops_df, sun)
       IN  /\ sunset_times' = res.rows
           /\ pc' = IF res.status = "ok" THEN "solar_done" ELSE "solar_raised"
    /\ UNCHANGED <<stops_df, merged, vod_stops, start_time, end_time, vod_prop,
                   cmpVars, sun, hit_rates>>

NextSolar == CalcSunsetTimes

SpecSolar == InitSolar /\ [][NextSolar]_vars

\* C5 as stated: with dusk at or after sunset as timestamps, every row has
\* sunset_minute and dusk_minute equal to hour*60+minute of the time of day, in
\* 0..1439, and dusk_minute >= sunset_minute.
C5_DuskNotBeforeSunset ==
    pc = "solar_done" =>
        \A i \in 1..Len(sunset_times) :
            LET row == sunset_times[i]
                ans == sun[row.date]
            IN  /\ row.sunset_minute = ans.sunset.h * 60 + ans.sunset.m
                /\ row.dusk_minute = ans.dusk.h * 60 + ans.dusk.m
                /\ row.sunset_minute \in 0..1439
                /\ row.dusk_minute \in 0..1439
                /\ row.dusk_minute >= row.sunset_minute

----------------------------------------------------------------------------
(* calc_hit_rates *)
(* search_conducted and contraband_found cells are Num(1) (True), Num(0)     *)
(* (False) or NaN.  The returned table is held as a set of rows, one per     *)
(* group; hit_rate is the fraction num/den.                                  *)

\* All stops, without the restriction to searches.
SearchedNoFilter(stops) == stops

\* stops_df[stops_df[search_col] == True]
Searched(stops) == SelectSeq(stops, LAMBDA r : r.search_conducted = Num(1))

\* np.mean([float(i) for i in x]) over the group's contraband cells: NaN as
\* soon as one cell is missing.
GroupMean(rows) ==
    IF \E i \in 1..Len(rows) : rows[i].contraband_found.isna THEN NaNProp
    ELSE [isna |-> FALSE,
          num |-> Len(SelectSeq(rows, LAMBDA r : r.contraband_found = Num(1))),
          den |-> Len(rows)]

\* groupby(groupby_cols).agg(mean).dropna(): one row per key among the searched
\* stops (missing keys left out), rows with a NaN rate dropped.
calc_hit_rates(stops) ==
    LET s    == Searched(stops)
        keys == {s[i].subject_race : i \in 1..Len(s)} \ {"NaN"}
        grp(g) == SelectSeq(s, LAMBDA r : r.subject_race = g)
    IN  {[subject_race |-> g, hit_rate |-> GroupMean(grp(g))] :
            g \in {k \in keys : ~GroupMean(grp(k)).isna}}

HitStops ==
    {[subject_race |-> g, search_conducted |-> sc, contraband_found |-> cf] :
        g \in {"white", "black", "NaN"}, sc \in {Num(0), Num(1), NaN},
        cf \in {Num(0), Num(1), NaN}}

InitHit ==
    /\ pc = "hit"
    /\ stops_df \in SeqsUpTo(HitStops, MaxHitStops)
    /\ sunset_times = <<>>
    /\ merged = NoTable
    /\ hit_rates = {}
    /\ VodIdle /\ CmpIdle /\ SunIdle

CalcHitRates ==
    /\ pc = "hit"
    /\ hit_rates' = calc_hit_rates(stops_df)
    /\ pc' = "hit_done"
    /\ UNCHANGED <<stops_df, sunset_times, merged, vod_stops, start_time, end_time,
                   vod_prop, cmpVars, sun>>

NextHit == CalcHitRates

SpecHit == InitHit /\ [][NextHit]_vars

SearchedOf(g) ==
    {i \in 1..Len(stops_df) :
        stops_df[i].subject_race = g /\ stops_df[i].search_conducted = Num(1)}

HitsOf(g) == {i \in SearchedOf(g) : stops_df[i].contraband_found = Num(1)}

\* Every searched stop of the group carries a contraband value.
CompleteContraband(g) ==
    \A i \in SearchedOf(g) : ~stops_df[i].contraband_found.isna

\* C10 (amended): the output has a row for a group exactly when a stop of the
\* group was searched and no searched stop of the group has a missing
\* contraband value; there is at most one row per group and none for a missing
\* group key; the row's hit_rate is (searched stops with contraband) /
\* (searched stops), a value in [0, 1].
C10_RowIffSearchedAndComplete ==
    pc = "hit_done" =>
        /\ \A r \in hit_rates : r.subject_race \in {"white", "black"}
        /\ \A g \in {"white", "black"} :
              LET rows == {r \in hit_rates : r.subject_race = g} IN
              /\ rows # {} <=> (SearchedOf(g) # {} /\ CompleteContraband(g))
              /\ Cardinality(rows) <= 1
              /\ \A r \in rows :
                    /\ ~r.hit_rate.isna
                    /\ r.hit_rate.num = Cardinality(HitsOf(g))
                    /\ r.hit_rate.den = Cardinality(SearchedOf(g))
                    /\ 0 <= r.hit_rate.num /\ r.hit_rate.num <= r.hit_rate.den

\* C10 witness: one group has a searched stop with contraband and a searched
\* stop whose contraband value is missing, and gets no row; another group gets
\* its row.
C10_Witness ==
    /\ pc = "hit_done"
    /\ \E g, h \in {"white", "black"} :
          /\ g # h
          /\ HitsOf(g) # {}
          /\ ~CompleteContraband(g)
          /\ ~\E r \in hit_rates : r.subject_race = g
          /\ \E r \in hit_rates : r.subject_race = h /\ r.hit_rate.den = 1

\* A group with a stop that was not searched and searched stops with and
\* without contraband gets the rate 1/2.
C10_WitnessRate ==
    /\ pc = "hit_done"
    /\ \E g \in {"white", "black"} :
          /\ \E i \in 1..Len(stops_df) :
                stops_df[i].subject_race = g /\ stops_df[i].search_conducted # Num(1)
          /\ Cardinality(SearchedOf(g)) = 2
          /\ Cardinality(HitsOf(g)) = 1
          /\ \E r \in hit_rates :
                r.subject_race = g /\ r.hit_rate.num = 1 /\ r.hit_rate.den = 2

\* C10 as stated: for every input the output has a row for a group exactly
\* when a stop of the group was searched, at most one row per group, and the
\* row's hit_rate is (searched stops with contraband) / (searched stops), a
\* value in [0, 1].
C10_HitRateOverSearched ==
    pc = "hit_done" =>
        \A g \in {"white", "black"} :
            LET rows == {r \in hit_rates : r.subject_race = g} IN
            /\ rows # {} <=> SearchedOf(g) # {}
            /\ Cardinality(rows) <= 1
            /\ \A r \in rows :
                  /\ ~r.hit_rate.isna
                  /\ r.hit_rate.num = Cardinality(HitsOf(g))
                  /\ r.hit_rate.den = Cardinality(SearchedOf(g))
                  /\ 0 <= r.hit_rate.num /\ r.hit_rate.num <= r.hit_rate.den

====
